---- MODULE Spec2Model ----
(***************************************************************************)
(* A model of the INI parser (package parser): the Parser struct, the      *)
(* line-by-line parse loop, Get / Set / ToString and the two entry points  *)
(* LoadFromString and ParseFile.                                           *)
(*                                                                         *)
(* A Go string is a sequence of one-character strings, so that trimming,   *)
(* splitting, escape replacement and line scanning are computed character  *)
(* by character as the library functions compute them.                     *)
(***************************************************************************)
EXTENDS Integers, Sequences, FiniteSets

(***************************************************************************)
(* Characters                                                              *)
(***************************************************************************)
LF == "\n"
CR == "\r"
TAB == "\t"
BSL == "\\"
QUOTE == "\""

\* the characters strings.TrimSpace removes (those that occur in the model)
WhiteSpace == {" ", TAB, LF, CR}

\* byte values, the order sort.Strings compares by
CharCode ==
    [c \in {TAB, LF, CR, " ", QUOTE, "#", ".", "/", ";", "=", "[", BSL, "]",
            "a", "b", "i", "j", "k", "n", "r", "t", "v", "w", "x"} |->
        CASE c = TAB -> 9 [] c = LF -> 10 [] c = CR -> 13 [] c = " " -> 32
          [] c = QUOTE -> 34 [] c = "#" -> 35 [] c = "." -> 46 [] c = "/" -> 47
          [] c = ";" -> 59 [] c = "=" -> 61 [] c = "[" -> 91 [] c = BSL -> 92
          [] c = "]" -> 93 [] c = "a" -> 97 [] c = "b" -> 98 [] c = "i" -> 105
          [] c = "j" -> 106 [] c = "k" -> 107 [] c = "n" -> 110 [] c = "r" -> 114
          [] c = "t" -> 116 [] c = "v" -> 118 [] c = "w" -> 119 [] c = "x" -> 120]

(***************************************************************************)
(* package strings                                                         *)
(***************************************************************************)
HasPrefix(s, prefix) ==
    /\ Len(s) >= Len(prefix)
    /\ SubSeq(s, 1, Len(prefix)) = prefix

HasSuffix(s, suffix) ==
    /\ Len(s) >= Len(suffix)
    /\ SubSeq(s, Len(s) - Len(suffix) + 1, Len(s)) = suffix

RECURSIVE TrimLeft(_, _)
TrimLeft(s, cutset) ==
    IF s # <<>> /\ Head(s) \in cutset THEN TrimLeft(Tail(s), cutset) ELSE s

RECURSIVE TrimRight(_, _)
TrimRight(s, cutset) ==
    IF s # <<>> /\ s[Len(s)] \in cutset
    THEN TrimRight(SubSeq(s, 1, Len(s) - 1), cutset)
    ELSE s

Trim(s, cutset) == TrimRight(TrimLeft(s, cutset), cutset)

TrimSpace(s) == Trim(s, WhiteSpace)

\* strings.Index for a one-character separator, 1-based; 0 when absent
Index(s, c) ==
    IF \E i \in 1..Len(s) : s[i] = c
    THEN CHOOSE i \in 1..Len(s) : s[i] = c /\ \A j \in 1..(i - 1) : s[j] # c
    ELSE 0

\* a SplitN that cuts at the last separator instead of the first
SplitAtLast(s, sep) ==
    LET hits == { i \in 1..Len(s) : s[i] = sep } IN
    IF hits = {} THEN <<s>>
    ELSE LET i == CHOOSE x \in hits : \A y \in hits : y <= x
         IN <<SubSeq(s, 1, i - 1), SubSeq(s, i + 1, Len(s))>>

\* strings.SplitN(s, sep, 2) for a one-character separator
SplitN2(s, sep) ==
    LET i == Index(s, sep) IN
    IF i = 0 THEN <<s>>
    ELSE <<SubSeq(s, 1, i - 1), SubSeq(s, i + 1, Len(s))>>

\* strings.ReplaceAll: non-overlapping occurrences of old, left to right
RECURSIVE ReplaceAll(_, _, _)
ReplaceAll(s, old, new) ==
    IF s = <<>> THEN <<>>
    ELSE IF HasPrefix(s, old)
         THEN new \o ReplaceAll(SubSeq(s, Len(old) + 1, Len(s)), old, new)
         ELSE <<Head(s)>> \o ReplaceAll(Tail(s), old, new)

\* s < t in the byte-wise order of Go string comparison
RECURSIVE Less(_, _)
Less(s, t) ==
    IF t = <<>> THEN FALSE
    ELSE IF s = <<>> THEN TRUE
    ELSE IF Head(s) # Head(t) THEN CharCode[Head(s)] < CharCode[Head(t)]
    ELSE Less(Tail(s), Tail(t))

\* a sort in descending order
RECURSIVE SortStringsDescending(_)
SortStringsDescending(S) ==
    IF S = {} THEN <<>>
    ELSE LET m == CHOOSE x \in S : \A y \in S \ {x} : Less(y, x)
         IN <<m>> \o SortStringsDescending(S \ {m})

\* sort.Strings applied to the elements of a set
RECURSIVE SortStrings(_)
SortStrings(S) ==
    IF S = {} THEN <<>>
    ELSE LET m == CHOOSE x \in S : \A y \in S \ {x} : Less(x, y)
         IN <<m>> \o SortStrings(S \ {m})

(***************************************************************************)
(* bufio.Scanner with the default split function ScanLines                 *)
(***************************************************************************)
\* drop one trailing carriage return
DropCR(s) ==
    IF s # <<>> /\ s[Len(s)] = CR THEN SubSeq(s, 1, Len(s) - 1) ELSE s

\* the sequence of tokens scanner.Scan() / scanner.Text() yields
RECURSIVE ScanLines(_)
ScanLines(text) ==
    IF text = <<>> THEN <<>>
    ELSE LET i == Index(text, LF) IN
         IF i = 0 THEN <<DropCR(text)>>
         ELSE <<DropCR(SubSeq(text, 1, i - 1))>> \o
              ScanLines(SubSeq(text, i + 1, Len(text)))

(***************************************************************************)
(* Bounds and inputs                                                       *)
(***************************************************************************)
\* lines scanned, Set calls and refused ParseFile calls over the life of one Parser
MaxInput == 3

\* the lines input texts are made of (each is followed by a line feed)
Catalogue ==
    { <<>>,                                   \* blank
      <<";", "k", "=", "v">>,                 \* ; comment
      <<"#", "[", "a", "]">>,                 \* # comment
      <<"[", "a", "]">>,
      <<" ", "[", "b", "]", " ">>,
      <<"[", "]">>,
      <<"[", "[", "a", "[", "]">>,
      <<"k", "=", "v">>,
      <<" ", "k", " ", "=", " ", "w", "=", "v", TAB>>,
      <<"k", " ", "=">>,
      <<"=">>,
      <<"[", "a">>,
      <<"j", "=", QUOTE, BSL, "n", QUOTE>>,
      <<"k", "=", QUOTE, QUOTE>> }

RECURSIVE JoinLines(_)
JoinLines(ls) ==
    IF ls = <<>> THEN <<>> ELSE Head(ls) \o <<LF>> \o JoinLines(Tail(ls))

\* the texts of at most n catalogue lines
Texts(n) == { JoinLines(ls) : ls \in UNION { [1..m -> Catalogue] : m \in 0..n } }

\* arguments of Set
SetSections == { <<"a">>, <<"b">> }
SetKeys == { <<"k">>, <<"j">> }
SetValues == { <<"v">>, <<"w">> }

\* arguments of ParseFile, and what the files may hold when they are opened
Paths ==
    { <<"a", ".", "i", "n", "i">>,
      <<"a", ".", "t", "x", "t">>,
      <<"a", ".", "i", "n", "i", "/", "b">>,
      <<"i", "n", "i">> }

FileContents ==
    { <<>>,
      <<"[", "b", "]", CR, LF, "j", "=", "w">>,
      <<LF, "k">>,
      <<"b", "]">>,
      <<"=", "v", LF>>,
      <<"[", QUOTE, BSL, "n", QUOTE, "]", LF,
        QUOTE, BSL, "n", QUOTE, "=", QUOTE, BSL, "t", QUOTE, BSL, "r", QUOTE>>,
      <<"j", "=", "w", LF, "k", "=", "v", LF, "[", "a", "]">> }

(***************************************************************************)
(* Errors: fmt.Errorf("line %d: <kind>: %s", lineNumber, line), and the    *)
(* wrapping fmt.Errorf("<context>: %w", err) of the entry points           *)
(***************************************************************************)
Nil == [kind |-> "nil", line |-> 0, text |-> <<>>, context |-> ""]

Errorf(kind, n, line) == [kind |-> kind, line |-> n, text |-> line, context |-> ""]

\* an entry point that returns the error of parse as it is
NoWrap(context, e) == e

Wrap(context, e) == [e EXCEPT !.context = context]

(***************************************************************************)
(* type Parser struct                                                      *)
(***************************************************************************)
\* an empty Go map: the function with the empty domain
EmptyMap == <<>>

\* m[k] = v on a Go map
Put(m, k, v) == [x \in (DOMAIN m) \cup {k} |-> IF x = k THEN v ELSE m[x]]

NewParser == [data |-> EmptyMap, globalKeys |-> EmptyMap, sections |-> <<>>]

VARIABLES
    p,                \* the Parser: data, globalKeys, sections
    call,             \* the entry point that is running, "none" between calls
    lines,            \* the tokens the call's scanner yields
    lineNumber,       \* parse: lines scanned so far
    currentSection,   \* parse: name of the section being filled
    err,              \* parse: the error it is about to return
    entry,            \* the Parser as it was when the running call began
    ret,              \* what the last finished call was and returned
    used              \* lines scanned, Set calls and refused ParseFile calls so far

vars == <<p, call, lines, lineNumber, currentSection, err, entry, ret, used>>

Returned(op, args, e) == [op |-> op, args |-> args, err |-> e]

Init ==
    /\ p = NewParser
    /\ call = "none"
    /\ lines = <<>>
    /\ lineNumber = 0
    /\ currentSection = <<>>
    /\ err = Nil
    /\ entry = NewParser
    /\ ret = Returned("NewParser", <<>>, Nil)
    /\ used = 0

(***************************************************************************)
(* parse and its helpers                                                   *)
(***************************************************************************)
\* a createSectionIfNotExist that does not look whether the section exists
createSectionAlways(q, section) ==
    [q EXCEPT !.data = Put(q.data, section, EmptyMap),
              !.sections = Append(q.sections, section)]

\* a createSectionIfNotExist that lists the section and makes no map for it
createSectionListOnly(q, section) ==
    IF section \notin DOMAIN q.data
    THEN [q EXCEPT !.sections = Append(q.sections, section)]
    ELSE q

createSectionIfNotExist(q, section) ==
    IF section \notin DOMAIN q.data
    THEN [q EXCEPT !.data = Put(q.data, section, EmptyMap),
                   !.sections = Append(q.sections, section)]
    ELSE q

\* an Unescape that knows \n and \t only
UnescapeWithoutCR(value) ==
    LET v1 == ReplaceAll(value, <<BSL, "n">>, <<LF>>)
        v3 == ReplaceAll(v1, <<BSL, "t">>, <<TAB>>)
    IN Trim(v3, {QUOTE})

\* the escape replacements and quote trimming of parseKeyValue
Unescape(value) ==
    LET v1 == ReplaceAll(value, <<BSL, "n">>, <<LF>>)
        v2 == ReplaceAll(v1, <<BSL, "r">>, <<CR>>)
        v3 == ReplaceAll(v2, <<BSL, "t">>, <<TAB>>)
    IN Trim(v3, {QUOTE})

\* a parseKeyValue that stores the pair before it validates the value
parseKeyValueStoresFirst(q, line, n, section) ==
    LET parts == SplitN2(line, "=")
        key == TrimSpace(parts[1])
        value == TrimSpace(parts[2])
        stored == IF section = <<>>
                  THEN [q EXCEPT !.globalKeys = Put(q.globalKeys, key, Unescape(value))]
                  ELSE [q EXCEPT !.data[section] =
                                    Put(q.data[section], key, Unescape(value))]
    IN IF Len(parts) # 2
       THEN [p |-> q, err |-> Errorf("invalid key-value pair", n, line)]
       ELSE IF key = <<>>
       THEN [p |-> q, err |-> Errorf("key cannot be empty", n, line)]
       ELSE IF value = <<>>
       THEN [p |-> stored, err |-> Errorf("value cannot be empty", n, line)]
       ELSE [p |-> stored, err |-> Nil]

\* the Parser after the call, and the error returned
parseKeyValue(q, line, n, section) ==
    LET parts == SplitN2(line, "=")
        key == TrimSpace(parts[1])
        value == TrimSpace(parts[2])
    IN IF Len(parts) # 2
       THEN [p |-> q, err |-> Errorf("invalid key-value pair", n, line)]
       ELSE IF key = <<>>
       THEN [p |-> q, err |-> Errorf("key cannot be empty", n, line)]
       ELSE IF value = <<>>
       THEN [p |-> q, err |-> Errorf("value cannot be empty", n, line)]
       ELSE IF section = <<>>
       THEN [p |-> [q EXCEPT !.globalKeys = Put(q.globalKeys, key, Unescape(value))],
             err |-> Nil]
       ELSE [p |-> [q EXCEPT !.data[section] = Put(q.data[section], key, Unescape(value))],
             err |-> Nil]

\* a loop that takes only ";" for a comment
IsSkippedSemicolonOnly(line) == line = <<>> \/ HasPrefix(line, <<";">>)

IsSkipped(line) ==
    line = <<>> \/ HasPrefix(line, <<";">>) \/ HasPrefix(line, <<"#">>)

\* a header test that looks at the first character only
IsHeaderByPrefix(line) == HasPrefix(line, <<"[">>)

IsHeader(line) == HasPrefix(line, <<"[">>) /\ HasSuffix(line, <<"]">>)

\* one pass of the loop body of parse over the n-th token: the Parser and
\* currentSection after it, and the error parse returns (Nil: it goes on)
LoopBody(q, n, section, token) ==
    LET line == TrimSpace(token) IN
    IF IsSkipped(line)
    THEN [p |-> q, currentSection |-> section, err |-> Nil]
    ELSE IF IsHeader(line)
    THEN [p |-> createSectionIfNotExist(q, Trim(line, {"[", "]"})),
          currentSection |-> Trim(line, {"[", "]"}),
          err |-> Nil]
    ELSE LET r == parseKeyValue(q, line, n, section)
         IN [p |-> r.p, currentSection |-> section, err |-> r.err]

\* parse as a function: the loop run over all tokens, from the n-th on
RECURSIVE parseLoop(_, _, _, _)
parseLoop(q, tokens, n, section) ==
    IF n >= Len(tokens)
    THEN [p |-> q, currentSection |-> section, lineNumber |-> n, err |-> Nil]
    ELSE LET r == LoopBody(q, n + 1, section, tokens[n + 1]) IN
         IF r.err # Nil
         THEN [p |-> r.p, currentSection |-> r.currentSection,
               lineNumber |-> n + 1, err |-> r.err]
         ELSE parseLoop(r.p, tokens, n + 1, r.currentSection)

parse(q, tokens) == parseLoop(q, tokens, 0, <<>>)

\* the line the next pass of the loop works on: the next token, trimmed
NextLine == TrimSpace(lines[lineNumber + 1])

\* a loop that goes on to the next token after a refused line
ScanningPastErrors == call # "none" /\ lineNumber < Len(lines)

Scanning == call # "none" /\ err = Nil /\ lineNumber < Len(lines)

\* scanner.Scan() yields a token and the loop body runs on it
ScanStep ==
    /\ Scanning
    /\ LET r == LoopBody(p, lineNumber + 1, currentSection, lines[lineNumber + 1]) IN
        /\ lineNumber' = lineNumber + 1
        /\ p' = r.p
        /\ currentSection' = r.currentSection
        /\ err' = r.err
    /\ UNCHANGED <<call, lines, entry, ret, used>>

\* the token is an empty line or a comment
SkipLine == Scanning /\ IsSkipped(NextLine) /\ ScanStep

\* the token is a section header
SectionLine == Scanning /\ ~IsSkipped(NextLine) /\ IsHeader(NextLine) /\ ScanStep

\* any other token goes to parseKeyValue
KeyValueLine == Scanning /\ ~IsSkipped(NextLine) /\ ~IsHeader(NextLine) /\ ScanStep

\* parse returns (its error, or scanner.Err() = nil at the end of the input)
\* and the entry point returns, wrapping the error if there is one
Return ==
    /\ call # "none"
    /\ err # Nil \/ lineNumber = Len(lines)
    /\ ret' = Returned(call, <<>>,
                IF err = Nil THEN Nil
                ELSE Wrap(IF call = "LoadFromString"
                          THEN "failed to parse input string"
                          ELSE "failed to parse file", err))
    /\ call' = "none"
    /\ lines' = <<>>
    /\ lineNumber' = 0
    /\ currentSection' = <<>>
    /\ err' = Nil
    /\ entry' = NewParser
    /\ UNCHANGED <<p, used>>

(***************************************************************************)
(* The public methods                                                      *)
(***************************************************************************)
GetSectionNames == p.sections

GetSections == p.data

GetGlobalKeys == p.globalKeys

\* sectionData[key] on a Go map: the zero value "" for a missing key
GetOf(q, section, key) ==
    IF section \in DOMAIN q.data
    THEN [value |-> IF key \in DOMAIN q.data[section]
                    THEN q.data[section][key] ELSE <<>>,
          found |-> TRUE]
    ELSE [value |-> <<>>, found |-> FALSE]

Get(section, key) == GetOf(p, section, key)

\* a Set that makes a fresh mapping for the section on every call
SetInFreshSection(section, key, value) ==
    /\ call = "none"
    /\ used < MaxInput
    /\ p' = [p EXCEPT
               !.data = Put(p.data, section, Put(EmptyMap, key, value)),
               !.sections = Append(p.sections, section)]
    /\ ret' = Returned("Set", <<section, key, value>>, Nil)
    /\ used' = used + 1
    /\ UNCHANGED <<call, lines, lineNumber, currentSection, err, entry>>

Set(section, key, value) ==
    /\ call = "none"
    /\ used < MaxInput
    /\ p' = [p EXCEPT
               !.data = Put(p.data, section,
                            Put(IF section \in DOMAIN p.data
                                THEN p.data[section] ELSE EmptyMap, key, value)),
               !.sections = Append(p.sections, section)]
    /\ ret' = Returned("Set", <<section, key, value>>, Nil)
    /\ used' = used + 1
    /\ UNCHANGED <<call, lines, lineNumber, currentSection, err, entry>>

\* the texts LoadFromString may be called with: no call is running, and
\* the lines still to be scanned over the life of the Parser are bounded
InputTexts == IF call = "none" THEN Texts(MaxInput - used) ELSE {}

\* a LoadFromString whose pass begins in the section listed last
LoadFromStringInLastSection(text) ==
    LET input == ScanLines(text) IN
    /\ call = "none"
    /\ used + Len(input) <= MaxInput
    /\ call' = "LoadFromString"
    /\ lines' = input
    /\ lineNumber' = 0
    /\ currentSection' = IF p.sections = <<>> THEN <<>>
                         ELSE p.sections[Len(p.sections)]
    /\ err' = Nil
    /\ entry' = p
    /\ ret' = Returned("running", <<>>, Nil)
    /\ used' = used + Len(input)
    /\ UNCHANGED p

LoadFromString(text) ==
    LET input == ScanLines(text) IN
    /\ call = "none"
    /\ used + Len(input) <= MaxInput
    /\ call' = "LoadFromString"
    /\ lines' = input
    /\ lineNumber' = 0
    /\ currentSection' = <<>>
    /\ err' = Nil
    /\ entry' = p
    /\ ret' = Returned("running", <<>>, Nil)
    /\ used' = used + Len(input)
    /\ UNCHANGED p

\* path.Ext: from the last dot of the last slash-separated element
Ext(path) ==
    LET DotFrom[i \in 0..Len(path)] ==
            IF i = 0 \/ path[i] = "/" THEN <<>>
            ELSE IF path[i] = "." THEN SubSeq(path, i, Len(path))
            ELSE DotFrom[i - 1]
    IN DotFrom[Len(path)]

\* a ParseFile that opens the file before it looks at the extension
ParseFileOpensFirst(filePath) ==
    /\ call = "none"
    /\ \/ /\ used < MaxInput
          /\ ret' = Returned("ParseFile", <<>>, Errorf("open", 0, filePath))
          /\ used' = used + 1
          /\ UNCHANGED <<p, call, lines, lineNumber, currentSection, err, entry>>
       \/ /\ Ext(filePath) # <<".", "i", "n", "i">>
          /\ used < MaxInput
          /\ ret' = Returned("ParseFile", <<>>,
                             Errorf(".ini format is only support", 0, <<>>))
          /\ used' = used + 1
          /\ UNCHANGED <<p, call, lines, lineNumber, currentSection, err, entry>>
       \/ /\ Ext(filePath) = <<".", "i", "n", "i">>
          /\ \E content \in FileContents :
               LET input == ScanLines(content) IN
               /\ used + Len(input) <= MaxInput
               /\ call' = "ParseFile"
               /\ lines' = input
               /\ lineNumber' = 0
               /\ currentSection' = <<>>
               /\ err' = Nil
               /\ entry' = p
               /\ ret' = Returned("running", <<>>, Nil)
               /\ used' = used + Len(input)
               /\ UNCHANGED p

\* os.Open succeeds or fails, and the file holds one of FileContents
ParseFile(filePath) ==
    /\ call = "none"
    /\ IF Ext(filePath) # <<".", "i", "n", "i">>
       THEN /\ used < MaxInput
            /\ ret' = Returned("ParseFile", <<>>,
                               Errorf(".ini format is only support", 0, <<>>))
            /\ used' = used + 1
            /\ UNCHANGED <<p, call, lines, lineNumber, currentSection, err, entry>>
       ELSE \/ /\ used < MaxInput
               /\ ret' = Returned("ParseFile", <<>>, Errorf("open", 0, filePath))
               /\ used' = used + 1
               /\ UNCHANGED <<p, call, lines, lineNumber, currentSection, err, entry>>
            \/ \E content \in FileContents :
               LET input == ScanLines(content) IN
               /\ used + Len(input) <= MaxInput
               /\ call' = "ParseFile"
               /\ lines' = input
               /\ lineNumber' = 0
               /\ currentSection' = <<>>
               /\ err' = Nil
               /\ entry' = p
               /\ ret' = Returned("running", <<>>, Nil)
               /\ used' = used + Len(input)
               /\ UNCHANGED p

\* one "key=value\n" line
KeyValueText(q, m, key) == key \o <<"=">> \o m[key] \o <<LF>>

RECURSIVE KeyValueTexts(_, _, _)
KeyValueTexts(q, m, keys) ==
    IF keys = <<>> THEN <<>>
    ELSE KeyValueText(q, m, Head(keys)) \o KeyValueTexts(q, m, Tail(keys))

\* the second loop of ToString, from the i-th section name on
RECURSIVE SectionsText(_, _)
SectionsText(q, i) ==
    IF i > Len(q.sections) THEN <<>>
    ELSE LET sectionName == q.sections[i]
             sectionData == IF sectionName \in DOMAIN q.data
                            THEN q.data[sectionName] ELSE EmptyMap
             sortedKeys == SortStrings(DOMAIN sectionData)
         IN <<"[">> \o sectionName \o <<"]", LF>>
            \o KeyValueTexts(q, sectionData, sortedKeys)
            \o SectionsText(q, i + 1)

\* the orders in which a range over a map with these keys may visit them
RangeOrders(keys) ==
    { o \in [1..Cardinality(keys) -> keys] :
        \A i, j \in 1..Cardinality(keys) : o[i] = o[j] => i = j }

\* a ToString that writes the sections first and the global keys after them
ToStringSectionsFirst(q, order) ==
    SectionsText(q, 1) \o KeyValueTexts(q, q.globalKeys, order)

\* ToString when the range over globalKeys visits the keys in this order
ToStringIn(q, order) == KeyValueTexts(q, q.globalKeys, order) \o SectionsText(q, 1)

\* every string ToString may return (Go leaves the map order open)
ToString == { ToStringIn(p, o) : o \in RangeOrders(DOMAIN p.globalKeys) }

Next ==
    \/ \E text \in InputTexts : LoadFromString(text)
    \/ \E path \in Paths : ParseFile(path)
    \/ SkipLine
    \/ SectionLine
    \/ KeyValueLine
    \/ Return
    \/ \E s \in SetSections, k \in SetKeys, v \in SetValues : Set(s, k, v)

Spec == Init /\ [][Next]_vars

\* a Parser that is populated by parse passes only: Set is never called
NextParse ==
    \/ \E text \in InputTexts : LoadFromString(text)
    \/ \E path \in Paths : ParseFile(path)
    \/ SkipLine
    \/ SectionLine
    \/ KeyValueLine
    \/ Return

SpecParse == Init /\ [][NextParse]_vars

(***************************************************************************)
(* What the claims speak about                                             *)
(***************************************************************************)
\* section names and keys to look up: those present and some that are not
ProbeSections == (DOMAIN p.data) \cup SetSections \cup { <<>>, <<"x">> }

ProbeKeys ==
    (UNION { DOMAIN p.data[s] : s \in DOMAIN p.data }) \cup (DOMAIN p.globalKeys)
        \cup SetKeys \cup { <<"x">> }

\* the i-th line of the running call's input, trimmed
LineAt(i) == TrimSpace(lines[i])

BlankOrComment(t) == t = <<>> \/ t[1] \in {";", "#"}

HeaderLine(t) == t # <<>> /\ t[1] = "[" /\ t[Len(t)] = "]"

HasEquals(t) == \E j \in 1..Len(t) : t[j] = "="

\* a line that is neither skipped nor a header
AssignmentLine(t) == ~BlankOrComment(t) /\ ~HeaderLine(t)

\* the parts of an assignment line left and right of its first "="
FirstEquals(t) == CHOOSE j \in 1..Len(t) : t[j] = "=" /\ \A i \in 1..(j - 1) : t[i] # "="

LeftOf(t) == TrimSpace(SubSeq(t, 1, FirstEquals(t) - 1))

RightOf(t) == TrimSpace(SubSeq(t, FirstEquals(t) + 1, Len(t)))

\* the header lines among the first n lines
HeadersUpTo(n) == { j \in 1..n : HeaderLine(LineAt(j)) }

Max(S) == CHOOSE x \in S : \A y \in S : y <= x

\* the name of the most recent header before line i
SectionAt(i) == Trim(LineAt(Max(HeadersUpTo(i - 1))), {"[", "]"})

\* a call of LoadFromString on an empty Parser has read all its input without error
LoadedIntoEmpty ==
    /\ call = "LoadFromString"
    /\ entry = NewParser
    /\ err = Nil
    /\ lineNumber = Len(lines)

NoDuplicates(sq) == \A i, j \in 1..Len(sq) : sq[i] = sq[j] => i = j

(***************************************************************************)
(* C1: Get(section, key) returns ("", false) whenever the section does not *)
(* exist or exists without the key; found is true only when the key is in  *)
(* that section.                                                           *)
(* Parser.Get returns the ok of the section lookup, so it reports          *)
(* found = true for every key of an existing section.                      *)
(***************************************************************************)
C1_GetFoundOnlyWhenKeyPresent ==
    \A s \in ProbeSections, k \in ProbeKeys :
        LET present == s \in DOMAIN p.data /\ k \in DOMAIN p.data[s] IN
        /\ Get(s, k).found <=> present
        /\ ~present => Get(s, k) = [value |-> <<>>, found |-> FALSE]

(***************************************************************************)
(* C2: after LoadFromString has parsed a text without error into an empty  *)
(* Parser, every assignment line that follows a section header is          *)
(* retrievable: Get(s, k) is found, for s the name of the most recent      *)
(* header before it and k its trimmed key, with the unescaped, unquoted    *)
(* value of the last assignment to k under s.                              *)
(* It fails after a header with the empty name (C5): the line is written   *)
(* to globalKeys.                                                          *)
(***************************************************************************)
C2_SectionAssignmentsRetrievable ==
    LoadedIntoEmpty =>
        \A i \in 1..Len(lines) :
            (AssignmentLine(LineAt(i)) /\ HeadersUpTo(i - 1) # {}) =>
                LET s == SectionAt(i)
                    k == LeftOf(LineAt(i))
                    same == { j \in 1..Len(lines) :
                                /\ AssignmentLine(LineAt(j))
                                /\ HeadersUpTo(j - 1) # {}
                                /\ SectionAt(j) = s
                                /\ LeftOf(LineAt(j)) = k }
                IN Get(s, k) = [value |-> Unescape(RightOf(LineAt(Max(same)))),
                                found |-> TRUE]

\* the same, for the headers whose name is not empty
C2_NamedSectionAssignmentsRetrievable ==
    LoadedIntoEmpty =>
        \A i \in 1..Len(lines) :
            (AssignmentLine(LineAt(i)) /\ HeadersUpTo(i - 1) # {}
                /\ SectionAt(i) # <<>>) =>
                LET s == SectionAt(i)
                    k == LeftOf(LineAt(i))
                    same == { j \in 1..Len(lines) :
                                /\ AssignmentLine(LineAt(j))
                                /\ HeadersUpTo(j - 1) # {}
                                /\ SectionAt(j) = s
                                /\ LeftOf(LineAt(j)) = k }
                IN Get(s, k) = [value |-> Unescape(RightOf(LineAt(Max(same)))),
                                found |-> TRUE]

(***************************************************************************)
(* C3: in every state reachable by Set and LoadFromString calls, no        *)
(* section name occurs twice in GetSectionNames.                           *)
(* Parser.Set appends the name on every call.                              *)
(***************************************************************************)
C3_SectionNamesUnique == NoDuplicates(GetSectionNames)

(***************************************************************************)
(* C4: when a Parser is populated by parse passes only, GetSectionNames    *)
(* lists exactly the names of the headers processed, without duplicates,   *)
(* in the order of each name's first header over all passes: a header      *)
(* whose name is not listed appends it, every other step leaves the list.  *)
(***************************************************************************)
Listed(sq) == { sq[i] : i \in 1..Len(sq) }

C4_HeaderStep ==
    IF Scanning /\ lineNumber' = lineNumber + 1 /\ HeaderLine(LineAt(lineNumber + 1))
    THEN LET name == currentSection' IN
         GetSectionNames' = IF name \in Listed(GetSectionNames)
                            THEN GetSectionNames
                            ELSE Append(GetSectionNames, name)
    ELSE GetSectionNames' = GetSectionNames

C4_SectionNamesInFirstHeaderOrder ==
    [](NoDuplicates(GetSectionNames)) /\ [][C4_HeaderStep]_vars

\* [b], [a], [b] were processed: b is listed once, before a
C4_Witness ==
    /\ lineNumber = 3
    /\ HeadersUpTo(3) = {1, 2, 3}
    /\ currentSection = <<"b">>
    /\ GetSectionNames = << <<"b">>, <<"a">> >>

(***************************************************************************)
(* C5: within one parse pass, once a header line has been processed every  *)
(* later accepted assignment line is written to the mapping of the most    *)
(* recent header's section and leaves globalKeys unchanged, also when the  *)
(* stripped name of that header is empty ("[]").                           *)
(* parse keeps "no section yet" as currentSection = "", so after "[]" the  *)
(* assignments go to globalKeys.                                           *)
(***************************************************************************)
C5_AssignmentStep ==
    (/\ Scanning
     /\ lineNumber' = lineNumber + 1
     /\ AssignmentLine(LineAt(lineNumber + 1))
     /\ HeadersUpTo(lineNumber) # {}
     /\ err' = Nil)
    => LET s == SectionAt(lineNumber + 1)
           k == LeftOf(LineAt(lineNumber + 1))
       IN /\ p'.globalKeys = p.globalKeys
          /\ s \in DOMAIN p'.data
          /\ k \in DOMAIN p'.data[s]
          /\ p'.data[s][k] = Unescape(RightOf(LineAt(lineNumber + 1)))

C5_AfterHeaderWritesToSection == [][C5_AssignmentStep]_vars

(***************************************************************************)
(* C6: LoadFromString is all-or-nothing: when a call returns an error,     *)
(* sections, data and globalKeys are what they were before the call.       *)
(* parse writes into the Parser line by line and returns at the first bad  *)
(* line, so what the lines before it wrote stays.                          *)
(***************************************************************************)
C6_FailedLoadChangesNothing ==
    (call = "LoadFromString" /\ err # Nil) => p = entry

\* C6 as amended: when a call returns an error, the Parser holds what the
\* lines before the erroneous line made of the Parser the call began with;
\* the erroneous line itself has written nothing.
C6_FailedLoadKeepsEarlierLines ==
    (call = "LoadFromString" /\ err # Nil) =>
        LET r == parse(entry, SubSeq(lines, 1, lineNumber - 1)) IN
        /\ r.err = Nil
        /\ p = r.p

\* a failed call that has created a section and written a key
C6_Witness ==
    /\ call = "LoadFromString"
    /\ err # Nil
    /\ Len(p.sections) > Len(entry.sections)
    /\ \E s \in DOMAIN p.data : p.data[s] # EmptyMap

(***************************************************************************)
(* C7: a line that is not blank, not a comment and not a header and has    *)
(* no "=" fails the parse with "line <n>: invalid key-value pair: <trimmed *)
(* line>", n being the 1-based position of the line in the input, blank    *)
(* and comment lines counted. A line that starts with "[" without ending   *)
(* with "]", or ends with "]" without starting with "[", is such a line.   *)
(***************************************************************************)
C7_NoSeparatorIsInvalidPair ==
    call # "none" =>
        \A i \in 1..lineNumber :
            (AssignmentLine(LineAt(i)) /\ ~HasEquals(LineAt(i))) =>
                err = [kind |-> "invalid key-value pair", line |-> i,
                       text |-> LineAt(i), context |-> ""]

\* a blank line, a comment, then the unterminated header "[a" as line 3
C7_Witness ==
    /\ call # "none"
    /\ lineNumber = 3
    /\ LineAt(1) = <<>>
    /\ HasPrefix(LineAt(2), <<";">>)
    /\ LineAt(3) = <<"[", "a">>
    /\ err.kind = "invalid key-value pair"
    /\ err.line = 3

(***************************************************************************)
(* C8: an assignment line with "=" is split at its first "=": an empty     *)
(* trimmed left part fails with "key cannot be empty" (also when the right *)
(* part is empty too); otherwise an empty trimmed right part fails with    *)
(* "value cannot be empty", never with "invalid key-value pair"; otherwise *)
(* the line is accepted and further "=" belong to the value.               *)
(***************************************************************************)
C8_SplitAtFirstEquals ==
    call # "none" =>
        \A i \in 1..lineNumber :
            LET t == LineAt(i) IN
            (AssignmentLine(t) /\ HasEquals(t)) =>
                IF LeftOf(t) = <<>>
                THEN err = [kind |-> "key cannot be empty", line |-> i,
                            text |-> t, context |-> ""]
                ELSE IF RightOf(t) = <<>>
                THEN err = [kind |-> "value cannot be empty", line |-> i,
                            text |-> t, context |-> ""]
                ELSE /\ err.line # i
                     /\ i = lineNumber =>
                          LET m == IF currentSection = <<>> THEN p.globalKeys
                                   ELSE p.data[currentSection]
                          IN /\ LeftOf(t) \in DOMAIN m
                             /\ m[LeftOf(t)] = Unescape(RightOf(t))

\* " k = w=v" was accepted with the value "w=v", and "=" alone failed on the key
C8_Witness ==
    /\ call # "none"
    /\ lineNumber = 3
    /\ LineAt(2) = <<"k", " ", "=", " ", "w", "=", "v">>
    /\ \E s \in DOMAIN p.data :
          /\ <<"k">> \in DOMAIN p.data[s]
          /\ p.data[s][<<"k">>] = <<"w", "=", "v">>
    /\ LineAt(3) = <<"=">>
    /\ err.kind = "key cannot be empty"

(***************************************************************************)
(* C9: after Set(s, k, v), Get(s, k) returns (v, true) whether or not s or *)
(* k existed before; every other (section, key) pair keeps its value, and  *)
(* globalKeys is unchanged.                                                *)
(***************************************************************************)
HasKey(q, section, key) == section \in DOMAIN q.data /\ key \in DOMAIN q.data[section]

C9_SetStep ==
    ret'.op = "Set" =>
        LET s == ret'.args[1]
            k == ret'.args[2]
            v == ret'.args[3]
        IN /\ GetOf(p', s, k) = [value |-> v, found |-> TRUE]
           /\ \A s2 \in ProbeSections \cup (DOMAIN p'.data), k2 \in ProbeKeys \cup {k} :
                 <<s2, k2>> # <<s, k>> =>
                    /\ HasKey(p', s2, k2) <=> HasKey(p, s2, k2)
                    /\ GetOf(p', s2, k2).value = GetOf(p, s2, k2).value
           /\ p'.globalKeys = p.globalKeys

C9_SetWritesOnePair == [][C9_SetStep]_vars

\* Set has written a second key into a section that existed
C9_Witness ==
    /\ ret.op = "Set"
    /\ ret.args[1] \in DOMAIN p.data
    /\ Cardinality(DOMAIN p.data[ret.args[1]]) = 2
    /\ Get(ret.args[1], ret.args[2]).value = ret.args[3]

(***************************************************************************)
(* C10: ToString emits the global "key=value" lines first, then for each   *)
(* name of the sections sequence, in that order, a "[name]" line followed  *)
(* by exactly that section's "key=value" lines in ascending key order; an  *)
(* empty Parser gives the empty string.                                    *)
(***************************************************************************)
C10_Ascending(keys) ==
    CHOOSE sq \in RangeOrders(keys) : \A i \in 1..(Len(sq) - 1) : Less(sq[i], sq[i + 1])

C10_PairLines(m, order) == [j \in 1..Len(order) |-> order[j] \o <<"=">> \o m[order[j]]]

RECURSIVE C10_SectionLines(_)
C10_SectionLines(i) ==
    IF i > Len(p.sections) THEN <<>>
    ELSE LET m == p.data[p.sections[i]] IN
         << <<"[">> \o p.sections[i] \o <<"]">> >>
            \o C10_PairLines(m, C10_Ascending(DOMAIN m))
            \o C10_SectionLines(i + 1)

C10_ToStringLayout ==
    /\ \A out \in ToString :
          \E order \in RangeOrders(DOMAIN p.globalKeys) :
              out = JoinLines(C10_PairLines(p.globalKeys, order) \o C10_SectionLines(1))
    /\ p = NewParser => ToString = { <<>> }

\* a section whose keys k and j were written in descending order
C10_Witness ==
    /\ p.sections = << <<"a">> >>
    /\ DOMAIN p.data[<<"a">>] = { <<"k">>, <<"j">> }
    /\ <<"[", "a", "]", LF, "j", "=", LF, LF, "k", "=", "v", LF>> \in ToString

(***************************************************************************)
(* C11: every error LoadFromString or ParseFile returns that comes from    *)
(* the parse pass or from opening the file is the underlying error wrapped *)
(* with the context of the call; a failed open in ParseFile is returned    *)
(* with context, not bare.                                                 *)
(* ParseFile returns the error of os.Open as it is.                        *)
(***************************************************************************)
ContextOf(op) ==
    IF op = "LoadFromString" THEN "failed to parse input string"
    ELSE "failed to parse file"

C11_ReturnStep ==
    /\ (call # "none" /\ call' = "none" /\ err # Nil) =>
          /\ ret'.op = call
          /\ ret'.err = [kind |-> err.kind, line |-> err.line, text |-> err.text,
                         context |-> ContextOf(call)]
    /\ ret'.err.kind = "open" => ret'.err.context = ""

C12_RefusedStep ==
    \A path \in Paths :
        (~HasSuffix(path, <<".", "i", "n", "i">>) /\ ParseFile(path)) =>
            /\ ret' = [op |-> "ParseFile", args |-> <<>>,
                       err |-> [kind |-> ".ini format is only support", line |-> 0,
                                text |-> <<>>, context |-> ""]]
            /\ p' = p
            /\ call' = "none"
            /\ lines' = lines

C12_OtherExtensionRefused == [][C12_RefusedStep]_vars

\* a Parser that holds a section has refused a path
C12_Witness ==
    /\ ret.op = "ParseFile"
    /\ ret.err.kind = ".ini format is only support"
    /\ p.sections # <<>>
    /\ call = "none"

(***************************************************************************)
(* C13: parse passes only accumulate.  A header line naming a section that *)
(* already exists (from the same pass, an earlier call or Set) neither     *)
(* clears its keys nor appends to sections, and during and after any       *)
(* LoadFromString call every section name and every (section, key) entry   *)
(* present before the call is still present, its value changed only if a   *)
(* line of the call's text assigns that key in that section.               *)
(***************************************************************************)
Reassigns(i, section, key) ==
    /\ AssignmentLine(LineAt(i))
    /\ HasEquals(LineAt(i))
    /\ LeftOf(LineAt(i)) = key
    /\ HeadersUpTo(i - 1) # {}
    /\ SectionAt(i) = section

C13_Kept ==
    call = "LoadFromString" =>
        /\ Len(entry.sections) <= Len(p.sections)
        /\ SubSeq(p.sections, 1, Len(entry.sections)) = entry.sections
        /\ \A s \in DOMAIN entry.data :
              /\ s \in DOMAIN p.data
              /\ \A k \in DOMAIN entry.data[s] :
                    /\ k \in DOMAIN p.data[s]
                    /\ p.data[s][k] # entry.data[s][k] =>
                          \E i \in 1..lineNumber : Reassigns(i, s, k)

C13_ExistingHeaderStep ==
    (/\ call # "none"
     /\ lineNumber' = lineNumber + 1
     /\ HeaderLine(LineAt(lineNumber + 1))
     /\ currentSection' \in DOMAIN p.data) => p' = p

C13_ParseOnlyAccumulates == []C13_Kept /\ [][C13_ExistingHeaderStep]_vars

\* a later call has just read the header of a section that held a key before
\* the call, and the section still holds what it held
C13_Witness ==
    /\ call = "LoadFromString"
    /\ lineNumber >= 1
    /\ HeaderLine(LineAt(lineNumber))
    /\ currentSection \in DOMAIN entry.data
    /\ entry.data[currentSection] # EmptyMap
    /\ p.data[currentSection] = entry.data[currentSection]

(***************************************************************************)
(* C14: blank lines and comment lines are inert.  Inserting or deleting    *)
(* them anywhere in an input yields the same sections, data and globalKeys *)
(* and the same success or error kind; only the line number of the error   *)
(* shifts, by the number of such lines before the erroneous line.          *)
(* Stated against the input with all such lines deleted, which two inputs  *)
(* that differ in such lines only have in common.                          *)
(***************************************************************************)
Meaningful(token) == ~BlankOrComment(TrimSpace(token))

C14_BlankAndCommentLinesInert ==
    LET read == SubSeq(lines, 1, lineNumber)
        kept == SelectSeq(read, Meaningful)
    IN (call # "none" /\ Len(kept) < Len(read)) =>
          LET r == parse(entry, kept) IN
          /\ r.p = p
          /\ r.currentSection = currentSection
          /\ r.err.kind = err.kind
          /\ r.err.text = err.text
          /\ err # Nil => err.line = r.err.line + (Len(read) - Len(kept))

\* a comment, an accepted line and a refused line were read: the error
\* names line 3 where the input without the comment has it on line 2
C14_Witness ==
    /\ call # "none"
    /\ lineNumber = 3
    /\ ~Meaningful(lines[1])
    /\ lines[1] # <<>>
    /\ Meaningful(lines[2])
    /\ err.kind = "invalid key-value pair"
    /\ err.line = 3
    /\ p # entry

(***************************************************************************)
(* C15: parsing is fail-fast.  When line n is the first line of the input  *)
(* that is a syntax error, the error returned is the one for line n, no    *)
(* line after n has any effect, and the document is what parsing lines     *)
(* 1..n-1 alone makes of the same starting document.                       *)
(***************************************************************************)
SyntaxError(t) ==
    /\ AssignmentLine(t)
    /\ \/ ~HasEquals(t)
       \/ LeftOf(t) = <<>>
       \/ RightOf(t) = <<>>

ReasonOf(t) ==
    IF ~HasEquals(t) THEN "invalid key-value pair"
    ELSE IF LeftOf(t) = <<>> THEN "key cannot be empty"
    ELSE "value cannot be empty"

Min(S) == CHOOSE x \in S : \A y \in S : x <= y

C15_FailFast ==
    call # "none" =>
        LET bad == { i \in 1..Len(lines) : SyntaxError(LineAt(i)) } IN
        IF bad = {} \/ lineNumber < Min(bad)
        THEN err = Nil
        ELSE LET n == Min(bad) IN
             /\ lineNumber = n
             /\ err = [kind |-> ReasonOf(LineAt(n)), line |-> n,
                       text |-> LineAt(n), context |-> ""]
             /\ p = parse(entry, SubSeq(lines, 1, n - 1)).p

\* line 2 was refused after line 1 changed the document, and line 3, which
\* is a syntax error of another kind, is never read
C15_Witness ==
    /\ call # "none"
    /\ Len(lines) = 3
    /\ lineNumber = 2
    /\ err.line = 2
    /\ p # entry
    /\ SyntaxError(LineAt(3))
    /\ ReasonOf(LineAt(3)) # err.kind

(***************************************************************************)
(* C16: for every trimmed line whose first character is "[" and whose last *)
(* character is "]", the section name recorded is the line with its        *)
(* maximal run of leading "[" and its maximal run of trailing "]" removed  *)
(* and no other character removed: a "]" right after the leading "["s, or  *)
(* a "[" right before the trailing "]"s, stays in the name.                *)
(* strings.Trim(line, "[]") removes both brackets at both ends.            *)
(***************************************************************************)
C16_NameKeepsInnerBrackets ==
    (/\ call # "none"
     /\ lineNumber >= 1
     /\ HeaderLine(LineAt(lineNumber)))
    => LET name == TrimRight(TrimLeft(LineAt(lineNumber), {"["}), {"]"}) IN
       /\ currentSection = name
       /\ name \in DOMAIN p.data
       /\ name \in Listed(p.sections)

(***************************************************************************)
(* C17: the value stored for an assignment line is the whitespace-trimmed  *)
(* right-hand side after, in this order, every backslash-n is replaced by  *)
(* a newline, every backslash-r by a carriage return, every backslash-t by *)
(* a tab, and then all leading and trailing double quotes are removed; key *)
(* names and section names are stored as written, with no escape replaced  *)
(* and no quote removed.                                                   *)
(***************************************************************************)
RECURSIVE Concat(_)
Concat(parts) ==
    IF parts = <<>> THEN <<>> ELSE Head(parts) \o Concat(Tail(parts))

\* every backslash followed by c becomes the one character new
Substitute(s, c, new) ==
    Concat([i \in 1..Len(s) |->
              IF s[i] = BSL /\ i < Len(s) /\ s[i + 1] = c THEN <<new>>
              ELSE IF i > 1 /\ s[i - 1] = BSL /\ s[i] = c THEN <<>>
              ELSE <<s[i]>>])

Unquoted(s) ==
    LET inner == { i \in 1..Len(s) : s[i] # QUOTE } IN
    IF inner = {} THEN <<>> ELSE SubSeq(s, Min(inner), Max(inner))

Unbracketed(s) ==
    LET inner == { i \in 1..Len(s) : s[i] \notin {"[", "]"} } IN
    IF inner = {} THEN <<>> ELSE SubSeq(s, Min(inner), Max(inner))

StoredValue(rhs) ==
    Unquoted(Substitute(Substitute(Substitute(rhs, "n", LF), "r", CR), "t", TAB))

C17_ValueUnescapedNamesRaw ==
    (call # "none" /\ lineNumber >= 1 /\ err = Nil) =>
        LET t == LineAt(lineNumber)
            m == IF currentSection = <<>> THEN p.globalKeys
                 ELSE p.data[currentSection]
        IN /\ AssignmentLine(t) =>
                /\ LeftOf(t) \in DOMAIN m
                /\ m[LeftOf(t)] = StoredValue(RightOf(t))
           /\ HeaderLine(t) =>
                /\ currentSection = Unbracketed(t)
                /\ currentSection \in DOMAIN p.data

\* under the section named by the four characters "\n" (quotes, backslash
\* and n as written) the key of the same four characters holds tab, quote,
\* carriage return
C17_Witness ==
    LET raw == <<QUOTE, BSL, "n", QUOTE>> IN
    /\ call = "ParseFile"
    /\ lineNumber = 2
    /\ currentSection = raw
    /\ raw \in DOMAIN p.data[raw]
    /\ p.data[raw][raw] = <<TAB, QUOTE, CR>>

(***************************************************************************)
(* C18: in every state reachable by Set and LoadFromString, a call that    *)
(* fails part-way included, every name in the sections list has an entry   *)
(* in data.                                                                *)
(***************************************************************************)
C18_ListedSectionsHaveData ==
    \A i \in 1..Len(p.sections) : p.sections[i] \in DOMAIN p.data

\* sections made by Set and by a header, in a call that then failed
C18_Witness ==
    /\ call = "LoadFromString"
    /\ err # Nil
    /\ entry.sections # <<>>
    /\ Len(p.sections) > Len(entry.sections)

(***************************************************************************)
(* C19: each parse pass starts afresh, in no section and with the line     *)
(* counter at 0.  Assignment lines before the first header of a later      *)
(* LoadFromString text go to globalKeys, not to the section that was       *)
(* current when the previous call ended, and the line number of an error   *)
(* counts from 1 within the current text.                                  *)
(***************************************************************************)
C19_EachPassStartsAfresh ==
    call # "none" =>
        /\ HeadersUpTo(lineNumber) = {} =>
              /\ currentSection = <<>>
              /\ p.data = entry.data
              /\ p.sections = entry.sections
        /\ (/\ lineNumber >= 1
            /\ err = Nil
            /\ HeadersUpTo(lineNumber) = {}
            /\ AssignmentLine(LineAt(lineNumber))) =>
              /\ LeftOf(LineAt(lineNumber)) \in DOMAIN p.globalKeys
              /\ p.globalKeys[LeftOf(LineAt(lineNumber))]
                    = StoredValue(RightOf(LineAt(lineNumber)))
        /\ err # Nil =>
              /\ err.line = lineNumber
              /\ err.line \in 1..Len(lines)
              /\ err.text = LineAt(err.line)

\* an earlier text left a section; in this text line 1 has written a global
\* key and line 2 is refused as line 2
C19_Witness ==
    /\ call = "LoadFromString"
    /\ entry.sections # <<>>
    /\ entry.globalKeys = EmptyMap
    /\ lineNumber = 2
    /\ HeadersUpTo(2) = {}
    /\ p.globalKeys # EmptyMap
    /\ err.line = 2

(***************************************************************************)
(* C20: every value a parse pass writes is non-empty: an assignment line   *)
(* either fails with "value cannot be empty" or stores a value of at least *)
(* one character.                                                          *)
(* The emptiness test runs before the quotes are removed.                  *)
(***************************************************************************)
C20_WrittenValuesNonEmpty ==
    (/\ call # "none"
     /\ lineNumber >= 1
     /\ err = Nil
     /\ AssignmentLine(LineAt(lineNumber)))
    => LET m == IF currentSection = <<>> THEN p.globalKeys
                ELSE p.data[currentSection]
       IN m[LeftOf(LineAt(lineNumber))] # <<>>

(***************************************************************************)
(* C21: round trip for escape-free input.  If a text whose assignment      *)
(* values contain no backslash and no double quote is loaded without error *)
(* into an empty document D, then loading D.ToString() into a fresh empty  *)
(* document succeeds and yields the same sequence of section names, the    *)
(* same data and the same globalKeys as D, whichever order ToString wrote  *)
(* the global keys in.                                                     *)
(***************************************************************************)
EscapeFree(t) ==
    AssignmentLine(t) /\ HasEquals(t) =>
        \A i \in 1..Len(RightOf(t)) : RightOf(t)[i] \notin {BSL, QUOTE}

C21_RoundTrip ==
    (/\ call # "none"
     /\ entry = NewParser
     /\ err = Nil
     /\ lineNumber = Len(lines)
     /\ \A i \in 1..Len(lines) : EscapeFree(LineAt(i)))
    => \A text \in ToString :
          LET r == parse(NewParser, ScanLines(text)) IN
          /\ r.err = Nil
          /\ r.p.sections = p.sections
          /\ r.p.data = p.data
          /\ r.p.globalKeys = p.globalKeys

\* two global keys, which ToString may write in either order, and a section
\* were loaded into an empty Parser
C21_Witness ==
    /\ call # "none"
    /\ entry = NewParser
    /\ err = Nil
    /\ lineNumber = Len(lines)
    /\ \A i \in 1..Len(lines) : EscapeFree(LineAt(i))
    /\ DOMAIN p.globalKeys = { <<"j">>, <<"k">> }
    /\ p.sections = << <<"a">> >>
    /\ Cardinality(ToString) = 2

====
